---- MODULE Spec2Model ----
(***************************************************************************)
(* Service lifecycle of the Aiven Terraform provider: the generic service  *)
(* resource and the per-type resources built on it (Create, Read, Update,  *)
(* Delete, Import), the wait for a running service, the copy of the remote *)
(* representation into the resource record, and the composite identity.    *)
(*                                                                         *)
(* Strings that take part in identities (project, service name, VPC id,    *)
(* resource id) are sequences of one-character strings; every other string *)
(* is an opaque token.                                                     *)
(***************************************************************************)
EXTENDS Integers, Sequences, FiniteSets, TLC

VARIABLES
    kind,      \* "service" (generic resource), "redis", or "datasource" (a lookup)
    cfg,       \* the declared configuration (what the user wrote)
    d,         \* the schema.ResourceData the handlers read and write
    remote,    \* the remote control plane: the service, or NoService
    pc,        \* "idle", or the wait a Create/Update is blocked in
    polls,     \* what each poll of the current (or last) wait observed
    calls,     \* remote requests issued by the current (or last) handler
    result,    \* outcome of the last handler that returned
    waited,    \* representation the waiter returned to the last Create/Update
    idAtCall,  \* the record's id when the handler issued its first remote request
    fresh,     \* the record was fully copied from the remote, unchanged since
    other      \* a second invocation, for a resource of another identity

vars == <<kind, cfg, d, remote, pc, polls, calls, result, waited, idAtCall, fresh, other>>

----------------------------------------------------------------------------
(* Bounds *)

MaxPolls == 3

----------------------------------------------------------------------------
(* Service types: the constants and availableServiceTypes() *)

ServiceTypePG               == "pg"
ServiceTypeCassandra        == "cassandra"
ServiceTypeElasticsearch    == "elasticsearch"
ServiceTypeOpensearch       == "opensearch"
ServiceTypeGrafana          == "grafana"
ServiceTypeInfluxDB         == "influxdb"
ServiceTypeRedis            == "redis"
ServiceTypeMySQL            == "mysql"
ServiceTypeKafka            == "kafka"
ServiceTypeKafkaConnect     == "kafka_connect"
ServiceTypeKafkaMirrormaker == "kafka_mirrormaker"
ServiceTypeM3               == "m3db"
ServiceTypeM3Aggregator     == "m3aggregator"
ServiceTypeFlink            == "flink"

availableServiceTypes ==
    { ServiceTypePG, ServiceTypeCassandra, ServiceTypeElasticsearch,
      ServiceTypeGrafana, ServiceTypeInfluxDB, ServiceTypeRedis,
      ServiceTypeMySQL, ServiceTypeKafka, ServiceTypeKafkaConnect,
      ServiceTypeKafkaMirrormaker, ServiceTypeM3, ServiceTypeM3Aggregator,
      ServiceTypeOpensearch, ServiceTypeFlink }

\* The per-type computed blocks aivenServiceSchema declares ("<type>" keys).
aivenServiceSchemaBlocks ==
    { ServiceTypeCassandra, ServiceTypeElasticsearch, ServiceTypeOpensearch,
      ServiceTypeGrafana, ServiceTypeInfluxDB, ServiceTypeKafka,
      ServiceTypeKafkaConnect, ServiceTypeMySQL, ServiceTypeKafkaMirrormaker,
      ServiceTypePG, ServiceTypeRedis, ServiceTypeFlink }

\* The "<type>_user_config" keys aivenServiceSchema declares, by their type.
aivenServiceSchemaUserConfigs ==
    { ServiceTypeCassandra, ServiceTypeElasticsearch, ServiceTypeOpensearch,
      ServiceTypeGrafana, ServiceTypeInfluxDB, ServiceTypeKafka,
      ServiceTypeKafkaConnect, ServiceTypeMySQL, ServiceTypeKafkaMirrormaker,
      ServiceTypePG, ServiceTypeRedis, ServiceTypeFlink }

\* redisSchema(): the common schema plus the "redis" block and its user config.
redisSchemaBlocks == { ServiceTypeRedis }

ResourceKinds == { "service", "redis" }
Kinds == ResourceKinds \cup { "datasource" }

\* Keys of the resource's schema that hold a per-type computed block.
SchemaBlocks(k) ==
    IF k = "service" THEN aivenServiceSchemaBlocks
    ELSE IF k = "redis" THEN redisSchemaBlocks ELSE {}

\* Types whose "<type>_user_config" key the resource's schema holds.
SchemaUserConfigs(k) ==
    IF k = "service" THEN aivenServiceSchemaUserConfigs
    ELSE IF k = "redis" THEN redisSchemaBlocks ELSE {}

\* The attributes aivenServiceSchema marks ForceNew.
aivenServiceSchemaForceNew_NoName == { "project", "service_type" }

aivenServiceSchemaForceNew == { "project", "service_name", "service_type" }

\* The attributes serviceCommonSchema marks ForceNew itself, and the one its
\* project reference (commonSchemaProjectReference) marks.
serviceCommonSchemaForceNew == { "service_name" }
commonSchemaProjectReferenceForceNew == { "project" }

\* Attributes whose change makes the framework replace the resource.
ForceNewFields(k) ==
    IF k = "service" THEN aivenServiceSchemaForceNew
    ELSE serviceCommonSchemaForceNew \cup commonSchemaProjectReferenceForceNew

----------------------------------------------------------------------------
(* Composite identity codec *)

SEP == "/"
ESC == "\\"

RECURSIVE EscapePart(_)
\* A part with every separator and escape character escaped.
EscapePart(s) ==
    IF s = <<>> THEN <<>>
    ELSE (IF Head(s) \in {SEP, ESC} THEN <<ESC, Head(s)>> ELSE <<Head(s)>>)
         \o EscapePart(Tail(s))

RECURSIVE buildResourceID(_)
\* encode: the escaped parts joined by the separator.
buildResourceID(parts) ==
    IF Len(parts) = 0 THEN <<>>
    ELSE IF Len(parts) = 1 THEN EscapePart(parts[1])
    ELSE EscapePart(parts[1]) \o <<SEP>> \o buildResourceID(Tail(parts))

RECURSIVE SplitScan(_, _, _)
\* Scan of an identity: `done` are the finished parts, `cur` the part being read.
\* Yields [ok, parts]; ok is FALSE when an escape character ends the string.
SplitScan(rest, done, cur) ==
    IF rest = <<>> THEN [ok |-> TRUE, parts |-> Append(done, cur)]
    ELSE IF Head(rest) = ESC
         THEN IF Len(rest) = 1
              THEN [ok |-> FALSE, parts |-> <<>>]
              ELSE SplitScan(Tail(Tail(rest)), done, Append(cur, rest[2]))
    ELSE IF Head(rest) = SEP
         THEN SplitScan(Tail(rest), Append(done, cur), <<>>)
    ELSE SplitScan(Tail(rest), done, Append(cur, Head(rest)))

\* decode: the parts of an identity, failing (ok = FALSE, MalformedIdentity)
\* when the part count is not n or the escaping is unbalanced.
splitResourceID(id, n) ==
    LET r == SplitScan(id, <<>>, <<>>)
    IN  IF r.ok /\ Len(r.parts) = n THEN r ELSE [ok |-> FALSE, parts |-> <<>>]

splitResourceID2(id) == splitResourceID(id, 2)

RECURSIVE CountSep(_)
CountSep(s) ==
    IF s = <<>> THEN 0
    ELSE (IF Head(s) = SEP THEN 1 ELSE 0) + CountSep(Tail(s))

\* len(strings.Split(s, "/")): one more than the separators in s.
stringsSplitLen(s) == CountSep(s) + 1

----------------------------------------------------------------------------
(* Values the model draws from *)


\* service_integrations lists: empty, or one read_replica integration.
ReadReplica == [source_service_name |-> "src", integration_type |-> "read_replica"]
IntegrationLists == { <<>>, <<ReadReplica>> }

\* Declared configurations: project and service name (which may hold the
\* separator), maintenance window day and time ("" is unset), VPC reference,
\* service integrations.
Declarations ==
    { [project |-> <<"p">>, service_name |-> <<"s">>,
       dow |-> "", time |-> "", vpc |-> <<>>, integrations |-> <<>>],
      [project |-> <<"p", "/">>, service_name |-> <<"s">>,
       dow |-> "monday", time |-> "10:00:00", vpc |-> <<"p", "/", "v">>,
       integrations |-> <<ReadReplica>>],
      [project |-> <<"p">>, service_name |-> <<"/", "s">>,
       dow |-> "monday", time |-> "", vpc |-> <<>>, integrations |-> <<>>] }

\* What the remote makes of a service's URI parameters and connection info:
\* "full" reports credentials and PostgreSQL parameters, "bare" reports none.
Flavours == { "full", "bare" }

\* Identity strings handed to Import besides those Create builds.
ImportIds ==
    { <<"p", "/", "s">>, <<"p">>, <<"p", "/", "s", "/", "x">>, <<"p", "\\", "/", "s">>, <<>> }

\* A service type the remote offers and the provider does not know.
OutOfBandTypes == { "clickhouse" }

\* Remote service states and how the waiter classifies them.
PendingStates == { "REBUILDING", "REBALANCING" }
TargetStates  == { "RUNNING" }

----------------------------------------------------------------------------
(* The remote service (aiven.Service) *)

NoWindow == [present |-> FALSE, DayOfWeek |-> "", TimeOfDay |-> ""]

NoService ==
    [ exists |-> FALSE, Project |-> <<>>, Name |-> <<>>, Type |-> "", State |-> "",
      CloudName |-> "", Plan |-> "", TerminationProtection |-> FALSE,
      DayOfWeek |-> "", TimeOfDay |-> "", URI |-> "",
      hasVPC |-> FALSE, ProjectVPCID |-> <<>>, flavour |-> "bare", Powered |-> FALSE ]

\* Service.URIParams: a map; the credentials are there only for some services.
URIParams(service) ==
    IF service.flavour = "full"
    THEN [k \in {"host", "port", "password", "user"} |->
            CASE k = "host" -> "h.aivencloud.com" [] k = "port" -> "5432"
              [] k = "password" -> "secret" [] OTHER -> "avnadmin"]
    ELSE [k \in {"host", "port"} |->
            IF k = "host" THEN "h.aivencloud.com" ELSE "5432"]

\* Go's map index: the zero value for a missing key.
MapGet(m, k) == IF k \in DOMAIN m THEN m[k] ELSE ""

\* strconv.ParseInt(s, 10, 32), the error dropped: 0 for what is no number.
ParseInt(s) == CASE s = "5432" -> 5432 [] s = "16379" -> 16379 [] OTHER -> 0

\* Service.Components
Components(service) ==
    << [Component |-> service.Type, Host |-> "h.aivencloud.com", Port |-> 5432,
        Route |-> "dynamic", Usage |-> "primary"] >>

\* Service.ConnectionInfo
ConnectionInfo(service) ==
    [ KibanaURI |-> "kibana", OpensearchDashboardsURI |-> "dashboards",
      InfluxDBDatabaseName |-> "defaultdb",
      KafkaAccessCert |-> "cert", KafkaAccessKey |-> "key", KafkaConnectURI |-> "connect",
      KafkaRestURI |-> "rest", SchemaRegistryURI |-> "registry",
      PostgresURIs |-> IF service.flavour = "full" THEN <<"postgres://primary">> ELSE <<>>,
      PostgresParams |->
          IF service.flavour = "full"
          THEN << [DatabaseName |-> "defaultdb", Host |-> "h.aivencloud.com",
                   Password |-> "secret", Port |-> "5432", SSLMode |-> "require",
                   User |-> "avnadmin"] >>
          ELSE <<>>,
      PostgresReplicaURI |-> "",
      FlinkHostPorts |-> <<"h.aivencloud.com:443">> ]

----------------------------------------------------------------------------
(* The resource record (schema.ResourceData) *)

Unset      == [isSet |-> FALSE, items |-> <<>>]
EmptyBlock == [isSet |-> TRUE, items |-> <<>>]

\* A record with nothing set: every attribute at its zero value.
EmptyRecord(k) ==
    [ id |-> <<>>, project |-> <<>>, service_name |-> <<>>, service_type |-> "",
      cloud_name |-> "", plan |-> "", state |-> "", termination_protection |-> FALSE,
      maintenance_window_dow |-> "", maintenance_window_time |-> "",
      service_uri |-> "", project_vpc_id |-> <<>>, service_host |-> "",
      service_port |-> 0, service_password |-> "", service_username |-> "",
      components |-> <<>>, service_integrations |-> <<>>,
      blocks |-> [t \in SchemaBlocks(k) |-> Unset],
      user_config |-> [t \in SchemaUserConfigs(k) |-> Unset] ]

\* The record Terraform hands to Create: the declared configuration and nothing else.
PlannedRecord(k, c) ==
    [ EmptyRecord(k) EXCEPT
        !.project = c.project, !.service_name = c.service_name,
        !.service_type = IF k = "service" THEN c.service_type ELSE "",
        !.cloud_name = c.cloud_name, !.plan = c.plan,
        !.termination_protection = c.termination_protection,
        !.maintenance_window_dow = c.maintenance_window_dow,
        !.maintenance_window_time = c.maintenance_window_time,
        !.project_vpc_id = c.project_vpc_id,
        !.service_integrations = c.service_integrations ]

\* The plan of the declaration c against the stored record dd changes an
\* attribute marked ForceNew: the framework replaces the resource, it does not
\* call Update.
RequiresNew(k, dd, c) ==
    \/ "project" \in ForceNewFields(k) /\ c.project # dd.project
    \/ "service_name" \in ForceNewFields(k) /\ c.service_name # dd.service_name
    \/ "service_type" \in ForceNewFields(k) /\ c.service_type # dd.service_type

----------------------------------------------------------------------------
(* Copying the remote representation into the record *)

\* Mutant of ProjectionCases: the switch has no case for redis.
ProjectionCases_NoRedis ==
    { "cassandra", "opensearch", "elasticsearch", "grafana", "influxdb", "kafka",
      "kafka_connect", "mysql", "pg", "flink", "kafka_mirrormaker",
      "m3db", "m3aggregator" }

\* The service types copyConnectionInfoFromAPIResponseToTerraform has a case for.
ProjectionCases ==
    { "cassandra", "opensearch", "elasticsearch", "grafana", "influxdb", "kafka",
      "kafka_connect", "mysql", "pg", "redis", "flink", "kafka_mirrormaker",
      "m3db", "m3aggregator" }

PgParamKeys == { "dbname", "host", "password", "port", "sslmode", "user" }

\* props of the pg case: uri and the parameters only when the remote reports them.
PgProps(ci) ==
    LET p == IF Len(ci.PostgresParams) > 0 THEN ci.PostgresParams[1]
             ELSE [DatabaseName |-> "", Host |-> "", Password |-> "", Port |-> "",
                   SSLMode |-> "", User |-> ""]
        keys == {"replica_uri"}
                \cup (IF Len(ci.PostgresURIs) > 0 THEN {"uri"} ELSE {})
                \cup (IF Len(ci.PostgresParams) > 0 THEN PgParamKeys ELSE {})
    IN  [k \in keys |->
           CASE k = "replica_uri" -> <<ci.PostgresReplicaURI>>
             [] k = "uri"      -> <<ci.PostgresURIs[1]>>
             [] k = "dbname"   -> <<p.DatabaseName>>
             [] k = "host"     -> <<p.Host>>
             [] k = "password" -> <<p.Password>>
             [] k = "port"     -> <<ParseInt(p.Port)>>
             [] k = "sslmode"  -> <<p.SSLMode>>
             [] OTHER          -> <<p.User>>]

\* props of the switch on the service type (each value boxed in a tuple).
ConnectionProps(serviceType, ci) ==
    CASE serviceType = "opensearch" ->
           [k \in {"opensearch_dashboards_uri"} |-> <<ci.OpensearchDashboardsURI>>]
      [] serviceType = "elasticsearch" -> [k \in {"kibana_uri"} |-> <<ci.KibanaURI>>]
      [] serviceType = "influxdb" -> [k \in {"database_name"} |-> <<ci.InfluxDBDatabaseName>>]
      [] serviceType = "kafka" ->
           [k \in {"access_cert", "access_key", "connect_uri", "rest_uri",
                   "schema_registry_uri"} |->
              CASE k = "access_cert" -> <<ci.KafkaAccessCert>>
                [] k = "access_key"  -> <<ci.KafkaAccessKey>>
                [] k = "connect_uri" -> <<ci.KafkaConnectURI>>
                [] k = "rest_uri"    -> <<ci.KafkaRestURI>>
                [] OTHER             -> <<ci.SchemaRegistryURI>>]
      [] serviceType = "pg" -> PgProps(ci)
      [] serviceType = "flink" -> [k \in {"host_ports"} |-> ci.FlinkHostPorts]
      [] OTHER -> [k \in {} |-> <<>>]

\* d.Set(serviceType, [props]); a panic for a type outside the switch, an error
\* for a key the schema does not have. Yields [d, err].
copyConnectionInfoFromAPIResponseToTerraform(k, dd, serviceType, connectionInfo) ==
    IF serviceType \notin ProjectionCases
    THEN [d |-> dd, err |-> "panic_unsupported_type"]
    ELSE IF serviceType \notin SchemaBlocks(k)
    THEN [d |-> dd, err |-> "cannot_set_block"]
    ELSE [d |-> [dd EXCEPT !.blocks[serviceType] =
                    [isSet |-> TRUE,
                     items |-> <<ConnectionProps(serviceType, connectionInfo)>>]],
          err |-> "none"]

flattenServiceComponents(service) ==
    LET cs == Components(service)
    IN  [i \in 1..Len(cs) |->
           [component |-> cs[i].Component, host |-> cs[i].Host, port |-> cs[i].Port,
            route |-> cs[i].Route, usage |-> cs[i].Usage]]

\* The remote's user configuration document, and its declarative form.
UserConfig(service) == <<"user_config", service.Type>>
ConvertAPIUserConfigToTerraformCompatibleFormat(res, serviceType, userConfig) ==
    <<[document |-> userConfig]>>

\* The service type the copy works with: the record's, or the remote's when the
\* record has none.
CopyServiceType(dd, service) ==
    IF dd.service_type # "" THEN dd.service_type ELSE service.Type

\* Mutant of VpcReference: the reference is rebuilt from the record's own value.
VpcReference_FromRecord(dd, service, project) ==
    IF service.hasVPC THEN buildResourceID(<<project, dd.project_vpc_id>>)
    ELSE dd.project_vpc_id

\* project_vpc_id after the copy: the remote's VPC under the project, or, when
\* the remote reports no VPC, the value the record already holds.
VpcReference(dd, service, project) ==
    IF service.hasVPC THEN buildResourceID(<<project, service.ProjectVPCID>>)
    ELSE dd.project_vpc_id

\* Yields [d, err]: the record after the d.Set calls made up to the first failure.
copyServicePropertiesFromAPIResponseToTerraform(k, dd, service, project) ==
    LET serviceType == CopyServiceType(dd, service)
        d1 == [dd EXCEPT
                 !.cloud_name = service.CloudName,
                 !.service_name = service.Name,
                 !.state = service.State,
                 !.plan = service.Plan,
                 !.service_type = serviceType,
                 !.termination_protection = service.TerminationProtection,
                 !.maintenance_window_dow = service.DayOfWeek,
                 !.maintenance_window_time = service.TimeOfDay,
                 !.service_uri = service.URI,
                 !.project = project,
                 !.project_vpc_id = VpcReference(dd, service, project)]
        params == URIParams(service)
    IN  IF serviceType \notin SchemaUserConfigs(k)
        THEN [d |-> d1, err |-> "cannot_set_user_config"]
        ELSE LET d2 == [d1 EXCEPT
                          !.user_config[serviceType] =
                              [isSet |-> TRUE,
                               items |-> ConvertAPIUserConfigToTerraformCompatibleFormat(
                                             "service", serviceType, UserConfig(service))],
                          !.service_host = MapGet(params, "host"),
                          !.service_port = ParseInt(MapGet(params, "port")),
                          !.service_password =
                              IF "password" \in DOMAIN params THEN params["password"] ELSE @,
                          !.service_username =
                              IF "user" \in DOMAIN params THEN params["user"] ELSE @,
                          !.components = flattenServiceComponents(service)]
             IN  copyConnectionInfoFromAPIResponseToTerraform(
                     k, d2, serviceType, ConnectionInfo(service))

----------------------------------------------------------------------------
(* Requests *)

\* Mutant of getMaintenanceWindow: one of the two values is enough.
getMaintenanceWindow_Either(dd) ==
    IF dd.maintenance_window_dow # "" \/ dd.maintenance_window_time # ""
    THEN [present |-> TRUE, DayOfWeek |-> dd.maintenance_window_dow,
          TimeOfDay |-> dd.maintenance_window_time]
    ELSE NoWindow

getMaintenanceWindow(dd) ==
    IF dd.maintenance_window_dow # "" /\ dd.maintenance_window_time # ""
    THEN [present |-> TRUE, DayOfWeek |-> dd.maintenance_window_dow,
          TimeOfDay |-> dd.maintenance_window_time]
    ELSE NoWindow

\* vpcIDPointer: the second part of the declared VPC reference, or nil.
VpcIDPointer(dd) ==
    IF Len(dd.project_vpc_id) > 0
    THEN [present |-> TRUE, id |-> splitResourceID2(dd.project_vpc_id).parts[2]]
    ELSE [present |-> FALSE, id |-> <<>>]

CreateServiceRequest(dd) ==
    [ Cloud |-> dd.cloud_name, MaintenanceWindow |-> getMaintenanceWindow(dd),
      Plan |-> dd.plan, ProjectVPCID |-> VpcIDPointer(dd),
      ServiceIntegrations |-> dd.service_integrations,
      ServiceName |-> dd.service_name, ServiceType |-> dd.service_type,
      TerminationProtection |-> dd.termination_protection ]

\* An update request that asks for the power state the record last saw.
UpdateServiceRequest_KeepPower(dd) ==
    [ Cloud |-> dd.cloud_name, MaintenanceWindow |-> getMaintenanceWindow(dd),
      Plan |-> dd.plan, ProjectVPCID |-> VpcIDPointer(dd),
      Powered |-> (dd.state # "POWEROFF"),
      TerminationProtection |-> dd.termination_protection ]

UpdateServiceRequest(dd) ==
    [ Cloud |-> dd.cloud_name, MaintenanceWindow |-> getMaintenanceWindow(dd),
      Plan |-> dd.plan, ProjectVPCID |-> VpcIDPointer(dd), Powered |-> TRUE,
      TerminationProtection |-> dd.termination_protection ]

----------------------------------------------------------------------------
(* The remote API: client.Services.Create / Get / Update / Delete *)

IsNotFound(err) == err = "not_found"

\* The service the remote sets up for an accepted create request.
NewService(project, req, flavour) ==
    [ exists |-> TRUE, Project |-> project, Name |-> req.ServiceName,
      Type |-> req.ServiceType, State |-> "REBUILDING",
      CloudName |-> req.Cloud, Plan |-> req.Plan,
      TerminationProtection |-> req.TerminationProtection,
      DayOfWeek |-> IF req.MaintenanceWindow.present
                    THEN req.MaintenanceWindow.DayOfWeek ELSE "sunday",
      TimeOfDay |-> IF req.MaintenanceWindow.present
                    THEN req.MaintenanceWindow.TimeOfDay ELSE "03:00:00",
      URI |-> "https://h.aivencloud.com:5432",
      hasVPC |-> req.ProjectVPCID.present, ProjectVPCID |-> req.ProjectVPCID.id,
      flavour |-> flavour, Powered |-> TRUE ]

\* The service after an accepted update request, in the state st.
UpdatedService(service, req, st) ==
    [ service EXCEPT
        !.CloudName = req.Cloud, !.Plan = req.Plan,
        !.TerminationProtection = req.TerminationProtection,
        !.DayOfWeek = IF req.MaintenanceWindow.present
                      THEN req.MaintenanceWindow.DayOfWeek ELSE @,
        !.TimeOfDay = IF req.MaintenanceWindow.present
                      THEN req.MaintenanceWindow.TimeOfDay ELSE @,
        !.hasVPC = req.ProjectVPCID.present, !.ProjectVPCID = req.ProjectVPCID.id,
        !.Powered = req.Powered, !.State = st ]

Holds(project, name) ==
    remote.exists /\ remote.Project = project /\ remote.Name = name

\* What Get can answer: the service, not-found when there is none, or a failure.
GetResponses(project, name) ==
    { [err |-> "server_error", service |-> NoService] }
    \cup (IF Holds(project, name)
          THEN { [err |-> "none", service |-> remote] }
          ELSE { [err |-> "not_found", service |-> NoService] })

\* What Create can answer: a new service, a conflict when it exists, or a failure.
CreateResponses(project, req) ==
    { [err |-> "server_error", service |-> NoService] }
    \cup (IF remote.exists
          THEN { [err |-> "conflict", service |-> NoService] }
          ELSE { [err |-> "none", service |-> NewService(project, req, f)] :
                     f \in Flavours })

\* What Update can answer.
UpdateResponses(project, name, req) ==
    { [err |-> "server_error", service |-> NoService] }
    \cup (IF Holds(project, name)
          THEN { [err |-> "none", service |-> UpdatedService(remote, req, st)] :
                     st \in {"REBUILDING", "RUNNING"} }
          ELSE { [err |-> "not_found", service |-> NoService] })

\* What Delete can answer.
DeleteResponses(project, name) ==
    { "server_error" } \cup (IF Holds(project, name) THEN { "none" } ELSE { "not_found" })

----------------------------------------------------------------------------
(* Handlers, as functions of the record and of what the remote answered *)

\* The waiter's error values: which of its two failures, and the remote status
\* it goes with.
NoError == [kind |-> "none", status |-> ""]
OperationTimedOut(last) == [kind |-> "OperationTimedOut", status |-> last]
OperationFailed(status) == [kind |-> "OperationFailed", status |-> status]

\* What one poll observed: the service's state, or the error of the request.
Observed(resp) == IF resp.err # "none" THEN resp.err ELSE resp.service.State

NoWaitError == [msg |-> "", cause |-> NoError]

\* Mutant of resourceServiceWait: the error says nothing of its cause.
resourceServiceWait_Opaque(w) ==
    IF w.err # NoError
    THEN [service |-> NoService,
          err |-> [msg |-> "error waiting for Aiven service to be RUNNING",
                   cause |-> NoError]]
    ELSE [service |-> w.service, err |-> NoWaitError]

\* Mutant of resourceServiceWait: the service returned is not the waiter's.
resourceServiceWait_Stale(w) ==
    IF w.err # NoError
    THEN [service |-> NoService,
          err |-> [msg |-> "error waiting for Aiven service to be RUNNING",
                   cause |-> w.err]]
    ELSE [service |-> [w.service EXCEPT !.State = "REBUILDING"], err |-> NoWaitError]

\* resourceServiceWait given what the waiter returned (w = [service, err]):
\* the waiter's service, or an error that wraps the text of the waiter's.
resourceServiceWait(w) ==
    IF w.err # NoError
    THEN [service |-> NoService,
          err |-> [msg |-> "error waiting for Aiven service to be RUNNING",
                   cause |-> w.err]]
    ELSE [service |-> w.service, err |-> NoWaitError]

\* op and outcome of the handler, the error of the remote answer that decided it
\* (resp), and what the handler was given: for Update whether the declared
\* integrations differ from the stored ones and how many are declared, for
\* Import the identity. records is what Import returned. status is the remote
\* state a wait ended on; for Read "fresh" when the record was in step with the
\* remote before, for Delete "repeated" when it follows a successful Delete.
NoResult ==
    [ op |-> "none", outcome |-> "none", resp |-> "", integChanged |-> FALSE,
      integLen |-> 0, importId |-> <<>>, records |-> 0, status |-> "",
      error |-> NoWaitError, window |-> NoWindow, powered |-> FALSE ]

Result(op, outcome, resp) == [NoResult EXCEPT !.op = op, !.outcome = outcome, !.resp = resp]

\* The types the generic wrapper pre-seeds with an empty block.
WrapperSeeded ==
    { ServiceTypeCassandra, ServiceTypeElasticsearch, ServiceTypeGrafana,
      ServiceTypeInfluxDB, ServiceTypeKafka, ServiceTypeKafkaConnect,
      ServiceTypeKafkaMirrormaker, ServiceTypeMySQL, ServiceTypePG,
      ServiceTypeRedis, ServiceTypeOpensearch, ServiceTypeFlink }

\* The d.Set calls of the create wrapper, before resourceServiceCreate runs.
resourceServiceCreateWrapper(k, dd) ==
    IF k = "service"
    THEN [dd EXCEPT !.blocks =
              [t \in DOMAIN @ |-> IF t \in WrapperSeeded THEN EmptyBlock ELSE @[t]]]
    ELSE [dd EXCEPT !.service_type = k, !.blocks[k] = EmptyBlock]

\* Mutant of CreateFinishOutcome: success is reported without the copy.
CreateFinishOutcome_NoCopy(k, dd, service) ==
    [d |-> [dd EXCEPT !.id = buildResourceID(<<dd.project, service.Name>>)],
     outcome |-> "ok"]

\* Mutant of CreateFinishOutcome: the identity's parts are in the wrong order.
CreateFinishOutcome_Swapped(k, dd, service) ==
    LET d1 == [dd EXCEPT !.id = buildResourceID(<<service.Name, dd.project>>)]
        c  == copyServicePropertiesFromAPIResponseToTerraform(k, d1, service, d1.project)
    IN  [d |-> c.d, outcome |-> IF c.err = "none" THEN "ok" ELSE c.err]

\* resourceServiceCreate once the waiter has returned `service`: [d, outcome].
CreateFinishOutcome(k, dd, service) ==
    LET d1 == [dd EXCEPT !.id = buildResourceID(<<dd.project, service.Name>>)]
        c  == copyServicePropertiesFromAPIResponseToTerraform(k, d1, service, d1.project)
    IN  [d |-> c.d, outcome |-> IF c.err = "none" THEN "ok" ELSE c.err]

\* if IsNotFound(err): drop the record (clear its identity) and report no error.
resourceReadHandleNotFound(err, dd) ==
    IF IsNotFound(err)
    THEN [d |-> [dd EXCEPT !.id = <<>>], err |-> "none"]
    ELSE [d |-> dd, err |-> err]

\* Mutant of ReadOutcome: every error of Get is returned as it is.
ReadOutcome_Propagates(k, dd, resp, projectName) ==
    IF resp.err # "none"
    THEN [d |-> dd, outcome |-> "remote_error"]
    ELSE LET c == copyServicePropertiesFromAPIResponseToTerraform(
                      k, dd, resp.service, projectName)
         IN  [d |-> c.d, outcome |-> IF c.err = "none" THEN "ok" ELSE c.err]

\* resourceServiceRead given Get's answer: [d, outcome].
ReadOutcome(k, dd, resp, projectName) ==
    IF resp.err # "none"
    THEN LET h == resourceReadHandleNotFound(resp.err, dd)
         IN  [d |-> h.d, outcome |-> IF h.err = "none" THEN "ok" ELSE "remote_error"]
    ELSE LET c == copyServicePropertiesFromAPIResponseToTerraform(
                      k, dd, resp.service, projectName)
         IN  [d |-> c.d, outcome |-> IF c.err = "none" THEN "ok" ELSE c.err]

\* Mutant of UpdateRejectsIntegrations: the length test is inverted.
UpdateRejectsIntegrations_Inverted(hasChanges, declared) ==
    hasChanges /\ Len(declared) = 0

\* The guard at the top of resourceServiceUpdate.
UpdateRejectsIntegrations(hasChanges, declared) == hasChanges /\ Len(declared) # 0

\* resourceServiceUpdate once the waiter has returned `service`: [d, outcome].
UpdateFinishOutcome(k, dd, service, projectName) ==
    LET c == copyServicePropertiesFromAPIResponseToTerraform(k, dd, service, projectName)
    IN  [d |-> c.d, outcome |-> IF c.err = "none" THEN "ok" ELSE c.err]

\* Mutant of DeleteOutcome: not-found is an error like any other.
DeleteOutcome_Strict(err) ==
    IF err # "none" THEN "remote_error" ELSE "ok"

\* resourceServiceDelete given Delete's answer.
DeleteOutcome(err) ==
    IF err # "none" /\ ~IsNotFound(err) THEN "remote_error" ELSE "ok"

\* Mutant of ImportRejectsIdentifier: only too few parts are refused.
ImportRejectsIdentifier_TooFew(id) == stringsSplitLen(id) < 2

\* The part-count test at the top of resourceServiceState.
ImportRejectsIdentifier(id) == stringsSplitLen(id) # 2

\* resourceServiceState given Get's answer: [d, outcome, records].
ImportOutcome(k, dd, resp, projectName) ==
    IF resp.err # "none"
    THEN [d |-> dd, outcome |-> "remote_error", records |-> 0]
    ELSE LET c == copyServicePropertiesFromAPIResponseToTerraform(
                      k, dd, resp.service, projectName)
         IN  IF c.err = "none"
             THEN [d |-> c.d, outcome |-> "ok", records |-> 1]
             ELSE [d |-> c.d, outcome |-> c.err, records |-> 0]

\* The service the waiter polls: Project and ServiceName of the record.
WaiterTarget_Fixed(dd) == << <<"p">>, <<"s">> >>

WaiterTarget(dd) == <<dd.project, dd.service_name>>

\* The service Read, Update and Delete address: the parts of the record's identity.
RecordTarget(dd) == splitResourceID2(dd.id).parts

\* The waiter's view of one poll: "pending", "success" or "failure".
Classify(resp) ==
    IF resp.err # "none" THEN "failure"
    ELSE IF resp.service.State \in PendingStates THEN "pending"
    ELSE IF resp.service.State \in TargetStates THEN "success"
    ELSE "failure"

----------------------------------------------------------------------------
(* Initial state: a declared configuration, no record, no remote service *)

\* The configuration that declares w for a service of type t.
Config(w, t) ==
    [ project |-> w.project, service_name |-> w.service_name, service_type |-> t,
      cloud_name |-> "google-europe-west1", plan |-> "startup-4",
      termination_protection |-> FALSE,
      maintenance_window_dow |-> w.dow, maintenance_window_time |-> w.time,
      project_vpc_id |-> w.vpc, service_integrations |-> w.integrations ]

Configs(k) ==
    { Config(w, t) : t \in (IF k = "service" THEN availableServiceTypes ELSE {k}),
                     w \in Declarations }

\* The declarations a user may turn c into that change an identity-forming
\* attribute: another project and name, or (generic resource) another type.
Redeclarations(k, c) ==
    { Config(w, c.service_type) :
        w \in { x \in Declarations :
                  <<x.project, x.service_name>> # <<c.project, c.service_name>> } }
    \cup (IF k = "service"
          THEN { [c EXCEPT !.service_type =
                     IF @ = ServiceTypePG THEN ServiceTypeRedis ELSE ServiceTypePG] }
          ELSE {})

\* What the user may declare next: the same, or a redeclaration.
NextDeclarations(k, c) == { c } \cup Redeclarations(k, c)

\* The second invocation works on a redis resource of the same project.
OtherKind == "redis"
OtherConfig ==
    Config([project |-> <<"p">>, service_name |-> <<"t">>, dow |-> "", time |-> "",
            vpc |-> <<>>, integrations |-> <<>>], OtherKind)

\* Its record, its service on the remote, where it stands, the polls of its
\* wait, the requests it issued, what it returned, what its waiter returned.
NoOther ==
    [ d |-> PlannedRecord(OtherKind, OtherConfig), remote |-> NoService,
      pc |-> "idle", npolls |-> 0, calls |-> <<>>,
      result |-> [op |-> "none", outcome |-> "none"], waited |-> NoService ]

Init ==
    /\ kind \in Kinds
    /\ cfg \in Configs(kind)
    /\ d = PlannedRecord(kind, cfg)
    /\ remote = NoService
    /\ pc = "idle"
    /\ polls = <<>>
    /\ calls = <<>>
    /\ result = NoResult
    /\ waited = NoService
    /\ idAtCall = <<>>
    /\ fresh = FALSE
    /\ other = NoOther

----------------------------------------------------------------------------
(* Create: the wrapper, the create request, then the wait *)

CreateBegin ==
    /\ kind \in ResourceKinds /\ pc = "idle" /\ d.id = <<>>
    /\ LET d0  == resourceServiceCreateWrapper(kind, PlannedRecord(kind, cfg))
           req == CreateServiceRequest(d0)
       IN  \E resp \in CreateResponses(d0.project, req) :
             /\ d' = d0
             /\ calls' = <<"create">>
             /\ idAtCall' = d0.id
             /\ polls' = <<>>
             /\ IF resp.err # "none"
                THEN /\ result' = [Result("create", "remote_error", resp.err) EXCEPT
                                      !.window = req.MaintenanceWindow]
                     /\ pc' = "idle"
                     /\ remote' = remote
                ELSE /\ result' = [NoResult EXCEPT !.window = req.MaintenanceWindow]
                     /\ pc' = "create"
                     /\ remote' = resp.service
    /\ fresh' = FALSE
    /\ waited' = NoService
    /\ UNCHANGED <<kind, cfg>>
    /\ UNCHANGED other

\* One poll of resourceServiceWait that finds the service still pending.
WaitPending ==
    /\ pc \in {"create", "update"} /\ Len(polls) + 1 < MaxPolls
    /\ \E resp \in GetResponses(WaiterTarget(d)[1], WaiterTarget(d)[2]) :
         /\ Classify(resp) = "pending"
         /\ polls' = Append(polls, Observed(resp))
         /\ calls' = Append(calls, "get")
    /\ UNCHANGED <<kind, cfg, d, remote, pc, result, waited, idAtCall, fresh>>
    /\ UNCHANGED other

\* The timeout elapses while the last poll found the service pending.
WaitTimeout ==
    /\ pc \in {"create", "update"}
    /\ \E resp \in GetResponses(WaiterTarget(d)[1], WaiterTarget(d)[2]) :
         /\ Classify(resp) = "pending"
         /\ polls' = Append(polls, Observed(resp))
         /\ calls' = Append(calls, "get")
         /\ result' = [Result(pc, "wait_timeout", resp.err) EXCEPT
                          !.status = Observed(resp),
                          !.window = result.window,
                          !.powered = result.powered,
                          !.error = resourceServiceWait(
                                        [service |-> resp.service,
                                         err |-> OperationTimedOut(Observed(resp))]).err]
    /\ pc' = "idle"
    /\ UNCHANGED <<kind, cfg, d, remote, waited, idAtCall, fresh>>
    /\ UNCHANGED other

\* A poll that fails or finds a state that is neither pending nor the target.
WaitFailed ==
    /\ pc \in {"create", "update"}
    /\ \E resp \in GetResponses(WaiterTarget(d)[1], WaiterTarget(d)[2]) :
         /\ Classify(resp) = "failure"
         /\ polls' = Append(polls, Observed(resp))
         /\ calls' = Append(calls, "get")
         /\ result' = [Result(pc, "wait_failed", resp.err) EXCEPT
                          !.status = Observed(resp),
                          !.window = result.window,
                          !.powered = result.powered,
                          !.error = resourceServiceWait(
                                        [service |-> resp.service,
                                         err |-> OperationFailed(Observed(resp))]).err]
    /\ pc' = "idle"
    /\ UNCHANGED <<kind, cfg, d, remote, waited, idAtCall, fresh>>
    /\ UNCHANGED other

\* The poll that finds the service running; Create assigns the id and copies.
CreateFinish ==
    /\ pc = "create"
    /\ \E resp \in GetResponses(WaiterTarget(d)[1], WaiterTarget(d)[2]) :
         /\ Classify(resp) = "success"
         /\ LET w == resourceServiceWait([service |-> resp.service, err |-> NoError])
                o == CreateFinishOutcome(kind, d, w.service)
            IN  /\ d' = o.d
                /\ result' = [Result("create", o.outcome, resp.err) EXCEPT
                                 !.window = result.window]
                /\ fresh' = (o.outcome = "ok")
                /\ waited' = w.service
         /\ polls' = Append(polls, Observed(resp))
         /\ calls' = Append(calls, "get")
    /\ pc' = "idle"
    /\ UNCHANGED <<kind, cfg, remote, idAtCall>>
    /\ UNCHANGED other

----------------------------------------------------------------------------
(* Read *)

resourceServiceRead ==
    /\ kind \in ResourceKinds /\ pc = "idle" /\ d.id # <<>>
    /\ LET split == splitResourceID2(d.id)
       IN  /\ split.ok
           /\ \E resp \in GetResponses(split.parts[1], split.parts[2]) :
                LET o == ReadOutcome(kind, d, resp, split.parts[1])
                IN  /\ d' = o.d
                    /\ result' = [Result("read", o.outcome, resp.err) EXCEPT
                                     !.status = IF fresh THEN "fresh" ELSE ""]
                    /\ fresh' = IF resp.err = "none" THEN o.outcome = "ok"
                                ELSE IF IsNotFound(resp.err) THEN FALSE ELSE fresh
    /\ calls' = <<"get">>
    /\ idAtCall' = d.id
    /\ polls' = <<>>
    /\ waited' = NoService
    /\ UNCHANGED <<kind, cfg, remote, pc>>
    /\ UNCHANGED other

----------------------------------------------------------------------------
(* Update: the declared integrations may have changed *)

\* DiffSuppressFunc of the maintenance window attributes: an unset declared
\* value leaves the stored one in place.
DiffSuppressed(old, new) == IF new = "" THEN old ELSE new

\* The record Update works on: the stored record with the declared values merged in.
UpdateRecord(k, dd, c, integrations) ==
    [dd EXCEPT
        !.project = c.project, !.service_name = c.service_name,
        !.service_type = IF k = "service" THEN c.service_type ELSE @,
        !.cloud_name = c.cloud_name, !.plan = c.plan,
        !.termination_protection = c.termination_protection,
        !.maintenance_window_dow = DiffSuppressed(@, c.maintenance_window_dow),
        !.maintenance_window_time = DiffSuppressed(@, c.maintenance_window_time),
        !.project_vpc_id = c.project_vpc_id,
        !.service_integrations = integrations]

\* d.HasChanges("service_integrations"): the declared list differs from the stored one.
HasChanges(dd, integrations) == integrations # dd.service_integrations

\* resourceServiceUpdate stopped by its guard: no remote request is issued.
UpdateRejected ==
    /\ kind \in ResourceKinds /\ pc = "idle" /\ d.id # <<>>
    /\ \E c \in NextDeclarations(kind, cfg), integrations \in IntegrationLists :
         /\ ~RequiresNew(kind, d, c)
         /\ UpdateRejectsIntegrations(HasChanges(d, integrations), integrations)
         /\ cfg' = c
         /\ d' = UpdateRecord(kind, d, c, integrations)
         /\ result' = [Result("update", "validation_error", "") EXCEPT
                          !.integChanged = HasChanges(d, integrations),
                          !.integLen = Len(integrations)]
    /\ calls' = <<>>
    /\ idAtCall' = <<>>
    /\ fresh' = FALSE
    /\ polls' = <<>>
    /\ waited' = NoService
    /\ UNCHANGED <<kind, remote, pc>>
    /\ UNCHANGED other

\* resourceServiceUpdate up to its update request; on success the wait follows.
UpdateBegin ==
    /\ kind \in ResourceKinds /\ pc = "idle" /\ d.id # <<>>
    /\ \E c \in NextDeclarations(kind, cfg), integrations \in IntegrationLists :
         /\ ~RequiresNew(kind, d, c)
         /\ ~UpdateRejectsIntegrations(HasChanges(d, integrations), integrations)
         /\ cfg' = c
         /\ LET d1    == UpdateRecord(kind, d, c, integrations)
                split == splitResourceID2(d1.id)
                req   == UpdateServiceRequest(d1)
            IN  /\ split.ok
                /\ d' = d1
                /\ \E resp \in UpdateResponses(split.parts[1], split.parts[2], req) :
                     IF resp.err # "none"
                     THEN /\ result' = [Result("update", "remote_error", resp.err) EXCEPT
                                           !.integChanged = HasChanges(d, integrations),
                                           !.integLen = Len(integrations),
                                           !.window = req.MaintenanceWindow,
                                           !.powered = req.Powered]
                          /\ pc' = "idle"
                          /\ remote' = remote
                     ELSE /\ result' = [NoResult EXCEPT
                                           !.integChanged = HasChanges(d, integrations),
                                           !.integLen = Len(integrations),
                                           !.window = req.MaintenanceWindow,
                                           !.powered = req.Powered]
                          /\ pc' = "update"
                          /\ remote' = resp.service
    /\ calls' = <<"update">>
    /\ idAtCall' = d.id
    /\ polls' = <<>>
    /\ fresh' = FALSE
    /\ waited' = NoService
    /\ UNCHANGED kind
    /\ UNCHANGED other

\* The poll that finds the service running; Update copies the representation.
UpdateFinish ==
    /\ pc = "update"
    /\ \E resp \in GetResponses(WaiterTarget(d)[1], WaiterTarget(d)[2]) :
         /\ Classify(resp) = "success"
         /\ LET w == resourceServiceWait([service |-> resp.service, err |-> NoError])
                o == UpdateFinishOutcome(kind, d, w.service,
                                         splitResourceID2(d.id).parts[1])
            IN  /\ d' = o.d
                /\ result' = [result EXCEPT !.op = "update", !.outcome = o.outcome,
                                            !.resp = resp.err]
                /\ fresh' = (o.outcome = "ok")
                /\ waited' = w.service
         /\ polls' = Append(polls, Observed(resp))
         /\ calls' = Append(calls, "get")
    /\ pc' = "idle"
    /\ UNCHANGED <<kind, cfg, remote, idAtCall>>
    /\ UNCHANGED other

----------------------------------------------------------------------------
(* A declaration that changes a ForceNew attribute *)

\* The framework's answer to a plan that requires a new resource: Delete of the
\* stored record, and on success a fresh record for the new declaration, which
\* Create takes up. Update is not called.
ForceNewReplace ==
    /\ kind \in ResourceKinds /\ pc = "idle" /\ d.id # <<>>
    /\ \E c \in Redeclarations(kind, cfg) :
         /\ RequiresNew(kind, d, c)
         /\ LET split == splitResourceID2(d.id)
            IN  /\ split.ok
                /\ \E err \in DeleteResponses(split.parts[1], split.parts[2]) :
                     /\ result' = Result("replace", DeleteOutcome(err), err)
                     /\ remote' = IF err = "none" THEN NoService ELSE remote
                     /\ IF DeleteOutcome(err) = "ok"
                        THEN cfg' = c /\ d' = PlannedRecord(kind, c)
                        ELSE cfg' = cfg /\ d' = d
    /\ calls' = <<"delete">>
    /\ idAtCall' = d.id
    /\ fresh' = FALSE
    /\ polls' = <<>>
    /\ waited' = NoService
    /\ UNCHANGED <<kind, pc>>
    /\ UNCHANGED other

----------------------------------------------------------------------------
(* Delete *)

resourceServiceDelete ==
    /\ kind \in ResourceKinds /\ pc = "idle" /\ d.id # <<>>
    /\ LET split == splitResourceID2(d.id)
       IN  /\ split.ok
           /\ \E err \in DeleteResponses(split.parts[1], split.parts[2]) :
                /\ result' = [Result("delete", DeleteOutcome(err), err) EXCEPT
                                 !.status = IF result.op = "delete" /\ result.outcome = "ok"
                                            THEN "repeated" ELSE ""]
                /\ remote' = IF err = "none" THEN NoService ELSE remote
    /\ calls' = <<"delete">>
    /\ idAtCall' = d.id
    /\ fresh' = FALSE
    /\ polls' = <<>>
    /\ waited' = NoService
    /\ UNCHANGED <<kind, cfg, d, pc>>
    /\ UNCHANGED other

----------------------------------------------------------------------------
(* Import: a record that holds an identity and nothing else *)

\* The record is removed from the state (terraform state rm); the remote stays.
Forget ==
    /\ kind \in ResourceKinds /\ pc = "idle" /\ d.id # <<>>
    /\ d' = PlannedRecord(kind, cfg)
    /\ result' = NoResult
    /\ calls' = <<>>
    /\ idAtCall' = <<>>
    /\ polls' = <<>>
    /\ waited' = NoService
    /\ fresh' = FALSE
    /\ UNCHANGED <<kind, cfg, remote, pc>>
    /\ UNCHANGED other

ImportableIds == ImportIds \cup { buildResourceID(<<cfg.project, cfg.service_name>>) }

\* resourceServiceState stopped by its part-count test.
ImportRejected ==
    /\ kind \in ResourceKinds /\ pc = "idle" /\ d.id = <<>>
    /\ \E id \in ImportableIds :
         /\ ImportRejectsIdentifier(id)
         /\ result' = [Result("import", "invalid_identifier", "") EXCEPT !.importId = id]
    /\ calls' = <<>>
    /\ idAtCall' = <<>>
    /\ polls' = <<>>
    /\ waited' = NoService
    /\ UNCHANGED <<kind, cfg, d, remote, pc, fresh>>
    /\ UNCHANGED other

\* The identity passes the part-count test but cannot be decoded into two parts.
ImportMalformed ==
    /\ kind \in ResourceKinds /\ pc = "idle" /\ d.id = <<>>
    /\ \E id \in ImportableIds :
         /\ ~ImportRejectsIdentifier(id)
         /\ ~splitResourceID2(id).ok
         /\ result' = [Result("import", "malformed_identity", "") EXCEPT !.importId = id]
    /\ calls' = <<>>
    /\ idAtCall' = <<>>
    /\ polls' = <<>>
    /\ waited' = NoService
    /\ UNCHANGED <<kind, cfg, d, remote, pc, fresh>>
    /\ UNCHANGED other

\* resourceServiceState past its test: Get, then the copy into the record.
resourceServiceState ==
    /\ kind \in ResourceKinds /\ pc = "idle" /\ d.id = <<>>
    /\ \E id \in ImportableIds :
         /\ ~ImportRejectsIdentifier(id)
         /\ LET split == splitResourceID2(id)
                d0    == [EmptyRecord(kind) EXCEPT !.id = id]
            IN  /\ split.ok
                /\ \E resp \in GetResponses(split.parts[1], split.parts[2]) :
                     LET o == ImportOutcome(kind, d0, resp, split.parts[1])
                     IN  /\ result' = [Result("import", o.outcome, resp.err) EXCEPT
                                          !.importId = id, !.records = o.records]
                         /\ d' = IF o.records = 1 THEN o.d ELSE d
                         /\ fresh' = IF o.records = 1 THEN TRUE ELSE fresh
         /\ idAtCall' = id
    /\ calls' = <<"get">>
    /\ polls' = <<>>
    /\ waited' = NoService
    /\ UNCHANGED <<kind, cfg, remote, pc>>
    /\ UNCHANGED other

----------------------------------------------------------------------------
(* Data-source lookup by project and service name *)

\* resourceAWSPrivatelinkRead given the remote's answer: not-found drops the record.
PrivatelinkReadOutcome(dd, err) ==
    IF IsNotFound(err) THEN [dd EXCEPT !.id = <<>>] ELSE dd

\* The identity the lookup assigns before it reads.
DatasourceId(dd) == buildResourceID(<<dd.project, dd.service_name>>)

datasourceAWSPrivatelinkRead ==
    /\ kind = "datasource" /\ pc = "idle"
    /\ LET d1 == [PlannedRecord(kind, cfg) EXCEPT !.id = DatasourceId(PlannedRecord(kind, cfg))]
       IN  /\ idAtCall' = d1.id
           /\ \E err \in { "none", "not_found", "server_error" } :
                /\ d' = PrivatelinkReadOutcome(d1, err)
                /\ result' = Result("datasource", IF err \in {"none", "not_found"}
                                                  THEN "ok" ELSE "remote_error", err)
    /\ calls' = <<"get_privatelink">>
    /\ UNCHANGED <<kind, cfg, remote, pc, polls, waited, fresh>>
    /\ UNCHANGED other

----------------------------------------------------------------------------
(* The remote moves on its own *)

\* A rebuilding service comes up, or is powered off.
RemoteProgress ==
    /\ remote.exists /\ remote.State \in PendingStates
    /\ \E st \in {"RUNNING", "POWEROFF"} :
         remote' = [remote EXCEPT !.State = st, !.Powered = (st # "POWEROFF")]
    /\ fresh' = FALSE
    /\ UNCHANGED <<kind, cfg, d, pc, polls, calls, result, waited, idAtCall>>
    /\ UNCHANGED other

\* The service is moved out of its VPC and no longer reports credentials.
RemoteReconfigured ==
    /\ remote.exists /\ (remote.hasVPC \/ remote.flavour = "full")
    /\ remote' = [remote EXCEPT !.hasVPC = FALSE, !.ProjectVPCID = <<>>,
                                !.flavour = "bare"]
    /\ fresh' = FALSE
    /\ UNCHANGED <<kind, cfg, d, pc, polls, calls, result, waited, idAtCall>>
    /\ UNCHANGED other

\* A service of the declared project and name is set up outside the provider,
\* of a type the provider does not know, while the provider holds no record.
RemoteAppears ==
    /\ ~remote.exists /\ pc = "idle" /\ d.id = <<>>
    /\ \E t \in OutOfBandTypes :
         remote' = [NewService(cfg.project,
                               CreateServiceRequest(
                                   [PlannedRecord(kind, cfg) EXCEPT !.service_type = t]),
                               "bare")
                    EXCEPT !.State = "RUNNING"]
    /\ fresh' = FALSE
    /\ UNCHANGED <<kind, cfg, d, pc, polls, calls, result, waited, idAtCall>>
    /\ UNCHANGED other

\* The service is deleted behind the provider's back.
RemoteVanish ==
    /\ remote.exists
    /\ remote' = NoService
    /\ fresh' = FALSE
    /\ UNCHANGED <<kind, cfg, d, pc, polls, calls, result, waited, idAtCall>>
    /\ UNCHANGED other

----------------------------------------------------------------------------

Next ==
    \/ CreateBegin
    \/ WaitPending
    \/ WaitTimeout
    \/ WaitFailed
    \/ CreateFinish
    \/ resourceServiceRead
    \/ UpdateRejected
    \/ UpdateBegin
    \/ UpdateFinish
    \/ ForceNewReplace
    \/ resourceServiceDelete
    \/ Forget
    \/ ImportRejected
    \/ ImportMalformed
    \/ resourceServiceState
    \/ datasourceAWSPrivatelinkRead
    \/ RemoteProgress
    \/ RemoteReconfigured
    \/ RemoteAppears
    \/ RemoteVanish

Spec == Init /\ [][Next]_vars

----------------------------------------------------------------------------
(* Two invocations at once. The first is the resource above; the second runs  *)
(* the same handlers on its own record. They share the remote, which keeps    *)
(* its services by project and name: the first invocation's in `remote`, the  *)
(* second's in other.remote.                                                  *)

Vars1 == <<kind, cfg, d, remote, pc, polls, calls, result, waited, idAtCall, fresh>>

Request(op, target) == [op |-> op, project |-> target[1], name |-> target[2]]

InSlot(service, target) ==
    service.exists /\ service.Project = target[1] /\ service.Name = target[2]

\* The service the remote holds under a project and name, or NoService.
StoreGet(target) ==
    IF InSlot(remote, target) THEN remote
    ELSE IF InSlot(other.remote, target) THEN other.remote
    ELSE NoService

\* Get's answer for a project and name.
StoreGetResponse(target) ==
    IF StoreGet(target).exists
    THEN [err |-> "none", service |-> StoreGet(target)]
    ELSE [err |-> "not_found", service |-> NoService]

\* The remote's two services once the one under `target` is replaced by svc.
StorePut(target, svc) ==
    [ first  |-> IF InSlot(remote, target) THEN svc ELSE remote,
      second |-> IF ~InSlot(remote, target) /\ InSlot(other.remote, target)
                 THEN svc ELSE other.remote ]

O_CreateBegin ==
    /\ other.pc = "idle" /\ other.d.id = <<>>
    /\ LET d0     == resourceServiceCreateWrapper(
                         OtherKind, PlannedRecord(OtherKind, OtherConfig))
           req    == CreateServiceRequest(d0)
           target == <<d0.project, req.ServiceName>>
       IN  IF StoreGet(target).exists
           THEN other' = [other EXCEPT
                            !.d = d0, !.calls = <<Request("create", target)>>,
                            !.result = [op |-> "create", outcome |-> "remote_error"],
                            !.npolls = 0, !.waited = NoService]
           ELSE other' = [other EXCEPT
                            !.d = d0, !.calls = <<Request("create", target)>>,
                            !.result = [op |-> "none", outcome |-> "none"],
                            !.npolls = 0, !.waited = NoService, !.pc = "create",
                            !.remote = NewService(target[1], req, "full")]
    /\ UNCHANGED Vars1

O_WaitPending ==
    /\ other.pc \in {"create", "update"} /\ other.npolls + 1 < MaxPolls
    /\ LET target == WaiterTarget(other.d)
       IN  /\ Classify(StoreGetResponse(target)) = "pending"
           /\ other' = [other EXCEPT !.npolls = @ + 1,
                                     !.calls = Append(@, Request("get", target))]
    /\ UNCHANGED Vars1

O_WaitFailed ==
    /\ other.pc \in {"create", "update"}
    /\ LET target == WaiterTarget(other.d)
       IN  /\ Classify(StoreGetResponse(target)) = "failure"
           /\ other' = [other EXCEPT !.npolls = @ + 1,
                                     !.calls = Append(@, Request("get", target)),
                                     !.result = [op |-> other.pc, outcome |-> "wait_failed"],
                                     !.pc = "idle"]
    /\ UNCHANGED Vars1

O_WaitFinish ==
    /\ other.pc \in {"create", "update"}
    /\ LET target == WaiterTarget(other.d)
           resp   == StoreGetResponse(target)
           w      == resourceServiceWait([service |-> resp.service, err |-> NoError])
           o      == IF other.pc = "create"
                     THEN CreateFinishOutcome(OtherKind, other.d, w.service)
                     ELSE UpdateFinishOutcome(OtherKind, other.d, w.service,
                                              RecordTarget(other.d)[1])
       IN  /\ Classify(resp) = "success"
           /\ other' = [other EXCEPT !.npolls = @ + 1,
                                     !.calls = Append(@, Request("get", target)),
                                     !.d = o.d,
                                     !.result = [op |-> other.pc, outcome |-> o.outcome],
                                     !.waited = w.service,
                                     !.pc = "idle"]
    /\ UNCHANGED Vars1

O_Read ==
    /\ other.pc = "idle" /\ other.d.id # <<>> /\ splitResourceID2(other.d.id).ok
    /\ LET target == RecordTarget(other.d)
           o      == ReadOutcome(OtherKind, other.d, StoreGetResponse(target), target[1])
       IN  other' = [other EXCEPT !.d = o.d, !.calls = <<Request("get", target)>>,
                                  !.result = [op |-> "read", outcome |-> o.outcome],
                                  !.npolls = 0, !.waited = NoService]
    /\ UNCHANGED Vars1

O_UpdateBegin ==
    /\ other.pc = "idle" /\ other.d.id # <<>> /\ splitResourceID2(other.d.id).ok
    /\ LET d1     == UpdateRecord(OtherKind, other.d, OtherConfig, <<>>)
           target == RecordTarget(d1)
           req    == UpdateServiceRequest(d1)
       IN  IF StoreGet(target).exists
           THEN \E st \in {"REBUILDING", "RUNNING"} :
                  LET store == StorePut(target, UpdatedService(StoreGet(target), req, st))
                  IN  /\ remote' = store.first
                      /\ other' = [other EXCEPT
                                     !.d = d1, !.calls = <<Request("update", target)>>,
                                     !.result = [op |-> "none", outcome |-> "none"],
                                     !.npolls = 0, !.waited = NoService,
                                     !.pc = "update", !.remote = store.second]
           ELSE /\ remote' = remote
                /\ other' = [other EXCEPT
                               !.d = d1, !.calls = <<Request("update", target)>>,
                               !.result = [op |-> "update", outcome |-> "remote_error"],
                               !.npolls = 0, !.waited = NoService]
    /\ UNCHANGED <<kind, cfg, d, pc, polls, calls, result, waited, idAtCall, fresh>>

O_Delete ==
    /\ other.pc = "idle" /\ other.d.id # <<>> /\ splitResourceID2(other.d.id).ok
    /\ LET target == RecordTarget(other.d)
           err    == IF StoreGet(target).exists THEN "none" ELSE "not_found"
           store  == StorePut(target, NoService)
       IN  /\ remote' = store.first
           /\ other' = [other EXCEPT
                          !.calls = <<Request("delete", target)>>,
                          !.result = [op |-> "delete", outcome |-> DeleteOutcome(err)],
                          !.npolls = 0, !.waited = NoService, !.remote = store.second]
    /\ UNCHANGED <<kind, cfg, d, pc, polls, calls, result, waited, idAtCall, fresh>>

\* The second service comes up, or is powered off.
O_RemoteProgress ==
    /\ other.remote.exists /\ other.remote.State \in PendingStates
    /\ \E st \in {"RUNNING", "POWEROFF"} :
         other' = [other EXCEPT !.remote = [@ EXCEPT !.State = st,
                                                     !.Powered = (st # "POWEROFF")]]
    /\ UNCHANGED Vars1

InitConcurrent ==
    /\ kind = OtherKind
    /\ cfg = Config([project |-> <<"p">>, service_name |-> <<"s">>, dow |-> "",
                     time |-> "", vpc |-> <<>>, integrations |-> <<>>], kind)
    /\ d = PlannedRecord(kind, cfg)
    /\ remote = NoService
    /\ pc = "idle"
    /\ polls = <<>>
    /\ calls = <<>>
    /\ result = NoResult
    /\ waited = NoService
    /\ idAtCall = <<>>
    /\ fresh = FALSE
    /\ other = NoOther

NextConcurrent ==
    \/ CreateBegin
    \/ WaitPending
    \/ WaitTimeout
    \/ WaitFailed
    \/ CreateFinish
    \/ resourceServiceRead
    \/ UpdateRejected
    \/ UpdateBegin
    \/ UpdateFinish
    \/ resourceServiceDelete
    \/ RemoteProgress
    \/ O_CreateBegin
    \/ O_WaitPending
    \/ O_WaitFailed
    \/ O_WaitFinish
    \/ O_Read
    \/ O_UpdateBegin
    \/ O_Delete
    \/ O_RemoteProgress

SpecConcurrent == InitConcurrent /\ [][NextConcurrent]_vars

----------------------------------------------------------------------------
(* Properties *)

\* C1 (as stated): whenever Update is given a service-integration list that
\* differs from the stored one, even an empty one, it fails with a validation
\* error and no remote request has been issued.
C1_RejectsEveryChange ==
    result.integChanged =>
        /\ result.op = "update" /\ result.outcome = "validation_error"
        /\ calls = <<>>

\* C1 (amended): whenever Update is given a non-empty service-integration list
\* that differs from the stored one, it fails with a validation error and no
\* remote request has been issued.
C1_RejectsNonEmptyChange ==
    (result.integChanged /\ result.integLen # 0) =>
        /\ result.op = "update" /\ result.outcome = "validation_error"
        /\ calls = <<>>

C1_Witness ==
    /\ result.op = "update" /\ result.outcome = "validation_error"
    /\ result.integChanged /\ result.integLen = 1 /\ calls = <<>>

\* C2: Delete succeeds when the remote delete request is accepted or answers
\* not-found, and fails on every other remote error; in particular it succeeds
\* whenever the service is already gone.
C2_DeleteNotFoundIsSuccess ==
    result.op = "delete" =>
        /\ calls = <<"delete">>
        /\ result.resp \in {"none", "not_found"} => result.outcome = "ok"
        /\ result.resp \notin {"none", "not_found"} => result.outcome = "remote_error"

\* A second Delete, after one that succeeded, of a service the remote no longer has.
C2_Witness ==
    /\ result.op = "delete" /\ result.status = "repeated"
    /\ result.resp = "not_found" /\ result.outcome = "ok" /\ ~remote.exists

\* C3: after a successful Create through the generic resource the record holds,
\* for every supported service type, a block that is set: populated (one element)
\* for the created type, empty for every other type.
C3_PreSeededBlocks ==
    (kind = "service" /\ result.op = "create" /\ result.outcome = "ok") =>
        \A t \in availableServiceTypes :
            /\ t \in DOMAIN d.blocks
            /\ d.blocks[t].isSet
            /\ Len(d.blocks[t].items) = (IF t = d.service_type THEN 1 ELSE 0)

\* C4: while Create waits, and when it has returned success, its first remote
\* request is the create request and every later one is a poll; success comes
\* only with a representation from the waiter whose state is the target state,
\* and the record holds exactly what the copy of that representation yields.
C4_CreateWaitsThenCopies ==
    /\ pc = "create" =>
           /\ calls # <<>> /\ calls[1] = "create"
           /\ \A i \in 2..Len(calls) : calls[i] = "get"
    /\ (result.op = "create" /\ result.outcome = "ok") =>
           /\ Len(calls) >= 2 /\ calls[1] = "create"
           /\ \A i \in 2..Len(calls) : calls[i] = "get"
           /\ waited.exists /\ waited.State \in TargetStates
           /\ d.state = waited.State
           /\ d.service_uri = waited.URI
           /\ d.components = flattenServiceComponents(waited)
           /\ copyServicePropertiesFromAPIResponseToTerraform(
                  kind, d, waited, d.project) = [d |-> d, err |-> "none"]

\* A Create that succeeded after polling a pending service at least once.
C4_Witness ==
    /\ result.op = "create" /\ result.outcome = "ok"
    /\ Len(calls) >= 3 /\ waited.State = "RUNNING" /\ d.state = "RUNNING"

\* C5: a Read whose get request answers not-found returns no error and leaves
\* the record as it was but for its cleared identity; a Read whose get request
\* fails otherwise returns an error and leaves the record untouched.
C5_ReadNotFoundDrops ==
    [][ resourceServiceRead =>
          /\ result'.resp = "not_found" =>
                 /\ result'.outcome = "ok"
                 /\ d' = [d EXCEPT !.id = <<>>]
          /\ result'.resp \notin {"none", "not_found"} =>
                 /\ result'.outcome = "remote_error"
                 /\ d' = d ]_vars

\* A Read of a record whose service is gone: no error, identity cleared, the
\* attributes copied earlier still there.
C5_Witness ==
    /\ result.op = "read" /\ result.resp = "not_found" /\ result.outcome = "ok"
    /\ d.id = <<>> /\ d.state = "RUNNING"

\* C6: a Read issues one get request and changes nothing on the remote; when
\* the record is in step with the remote (right after a successful Create, Read,
\* Update or Import, the remote unchanged since), the Read leaves every
\* attribute and every block of the record as it was.
C6_ReadIdempotent ==
    [][ resourceServiceRead =>
          /\ calls' = <<"get">>
          /\ remote' = remote
          /\ fresh => d' = d ]_vars

\* A Read answered by the remote while the record was in step with it.
C6_Witness ==
    /\ result.op = "read" /\ result.status = "fresh"
    /\ result.resp = "none" /\ result.outcome = "ok" /\ fresh

----------------------------------------------------------------------------
(* The identity codec on bounded parts *)

MaxPartLen == 1

Alphabet == { "a", SEP, ESC }

RECURSIVE StringsUpTo(_)
\* The strings over Alphabet of length at most n.
StringsUpTo(n) ==
    IF n = 0 THEN { <<>> }
    ELSE StringsUpTo(n - 1)
         \cup { Append(x, c) : x \in { y \in StringsUpTo(n - 1) : Len(y) = n - 1 },
                               c \in Alphabet }

Parts == StringsUpTo(MaxPartLen)

\* The sequences of 2 to 4 parts.
PartSeqs ==
    UNION { [1..n -> Parts] : n \in 2..4 }

RoundTrip(parts) ==
    splitResourceID(buildResourceID(parts), Len(parts)) = [ok |-> TRUE, parts |-> parts]

C8_IdentityFromNaturalKeys ==
    /\ (result.op = "create" /\ d.id # <<>>) =>
           d.id = buildResourceID(<<cfg.project, cfg.service_name>>)
    /\ result.op = "datasource" =>
           /\ calls = <<"get_privatelink">>
           /\ idAtCall = buildResourceID(<<cfg.project, cfg.service_name>>)

\* A Create that assigned the identity of keys that hold the separator.
C8_Witness ==
    /\ result.op = "create" /\ result.outcome = "ok"
    /\ cfg.project = <<"p", "/">>
    /\ d.id = <<"p", "\\", "/", "/", "s">>

\* C9: an Import of an identity that strings.Split cuts into a number of parts
\* other than 2 fails with the invalid-identifier error, has issued no remote
\* request and returns no record.
C9_ImportRejectsPartCount ==
    (result.op = "import" /\ stringsSplitLen(result.importId) # 2) =>
        /\ result.outcome = "invalid_identifier"
        /\ calls = <<>>
        /\ result.records = 0

\* An Import of a three-part identity, refused.
C9_Witness ==
    /\ result.op = "import" /\ result.outcome = "invalid_identifier"
    /\ stringsSplitLen(result.importId) = 3 /\ calls = <<>>

\* C10: an Import whose get request answers not-found does not return an error.
C10_ImportNotFoundDrops ==
    (result.op = "import" /\ result.resp = "not_found") => result.outcome = "ok"

\* C11: an Import of a well-formed identity whose service the remote holds
\* returns exactly one record; its project and service name are the identity's
\* parts, its service type is the remote's, and a Read of the same service
\* leaves it as it is.
C11_ImportReconstructs ==
    (result.op = "import" /\ result.resp = "none") =>
        LET parts == splitResourceID2(result.importId).parts
        IN  /\ result.records = 1
            /\ d.project = parts[1]
            /\ d.service_name = parts[2]
            /\ fresh =>
                  /\ d.service_type = remote.Type
                  /\ ReadOutcome(kind, d, [err |-> "none", service |-> remote], parts[1])
                         = [d |-> d, outcome |-> "ok"]

\* C12 (as stated): a declaration whose project, service name or service type
\* differs from the record's ends in a validation error and no remote request.
C12_UpdateRejectsIdentityChange ==
    result.op = "replace" =>
        /\ result.outcome = "validation_error"
        /\ calls = <<>>

\* C12 (amended): a declaration whose project, service name or service type
\* differs from the record's is answered by replacing the resource, with one
\* delete request and no update request; and every call of Update is given a
\* declaration whose project, service name and (generic resource) service type
\* equal the stored record's.
C12_IdentityChangeReplaces ==
    /\ [](result.op = "replace" =>
            /\ calls = <<"delete">>
            /\ result.outcome \in {"ok", "remote_error"})
    /\ [][ (UpdateBegin \/ UpdateRejected) =>
             /\ cfg'.project = d.project
             /\ cfg'.service_name = d.service_name
             /\ kind = "service" => cfg'.service_type = d.service_type ]_vars

\* A changed service name replaced the resource: the old service deleted, a
\* fresh record for the new declaration.
C12_Witness ==
    /\ result.op = "replace" /\ result.outcome = "ok" /\ result.resp = "none"
    /\ calls = <<"delete">> /\ d = PlannedRecord(kind, cfg) /\ ~remote.exists

\* C13: no handler ends in the unsupported-type fault; whenever Create, Read,
\* Update or Import has copied a remote representation through to the
\* connection-info projection, the record's service type is one of
\* availableServiceTypes(); and the projection has a case for every one of them.
C13_NoUnsupportedTypeFault ==
    /\ result.outcome # "panic_unsupported_type"
    /\ (result.op \in {"create", "read", "update", "import"}
          /\ result.resp = "none" /\ result.outcome = "ok") =>
           d.service_type \in availableServiceTypes
    /\ \A t \in availableServiceTypes :
           copyConnectionInfoFromAPIResponseToTerraform(
               "service", EmptyRecord("service"), t, ConnectionInfo(NoService)).err
             # "panic_unsupported_type"

\* An Import that met a service of a type outside the enumeration: it ended in
\* an error of the copy before the projection was reached.
C13_Witness ==
    /\ result.op = "import" /\ result.resp = "none"
    /\ remote.exists /\ remote.Type \notin availableServiceTypes
    /\ result.outcome = "cannot_set_user_config"

\* The attributes of the record dd that the remote service reports equal what
\* it reports.
MirrorsReported(dd, service, project) ==
    /\ dd.cloud_name = service.CloudName
    /\ dd.plan = service.Plan
    /\ dd.state = service.State
    /\ dd.termination_protection = service.TerminationProtection
    /\ dd.maintenance_window_dow = service.DayOfWeek
    /\ dd.maintenance_window_time = service.TimeOfDay
    /\ dd.service_uri = service.URI
    /\ Len(dd.components) = Len(Components(service))
    /\ \A i \in 1..Len(dd.components) :
          /\ dd.components[i].component = Components(service)[i].Component
          /\ dd.components[i].host = Components(service)[i].Host
          /\ dd.components[i].port = Components(service)[i].Port
          /\ dd.components[i].route = Components(service)[i].Route
          /\ dd.components[i].usage = Components(service)[i].Usage
    /\ service.hasVPC =>
          dd.project_vpc_id = buildResourceID(<<project, service.ProjectVPCID>>)
    /\ "password" \in DOMAIN URIParams(service) =>
          dd.service_password = URIParams(service)["password"]
    /\ "user" \in DOMAIN URIParams(service) =>
          dd.service_username = URIParams(service)["user"]

\* The attributes of the record dd that the remote service does not report are
\* empty.
AbsentIsEmpty(dd, service) ==
    /\ ~service.hasVPC => dd.project_vpc_id = <<>>
    /\ "password" \notin DOMAIN URIParams(service) => dd.service_password = ""
    /\ "user" \notin DOMAIN URIParams(service) => dd.service_username = ""

\* C14: after a Read that succeeded on the service as the remote still holds
\* it, every attribute that mirrors the service equals the remote's value, and
\* VPC reference, username and password are empty when the remote reports none.
C14_ReadMirrorsRemote ==
    (result.op = "read" /\ result.resp = "none" /\ result.outcome = "ok" /\ fresh) =>
        /\ MirrorsReported(d, remote, d.project)
        /\ AbsentIsEmpty(d, remote)

\* C15: a wait of Create or Update that ends on the timeout and one that ends
\* on a terminal failure return different errors: the first names the timeout,
\* the second names the failure and carries the status the last poll observed.
C15_TimeoutDistinctFromFailure ==
    /\ result.outcome = "wait_timeout" =>
          /\ result.op \in {"create", "update"}
          /\ polls[Len(polls)] \in PendingStates
          /\ result.error.msg # ""
          /\ result.error.cause.kind = "OperationTimedOut"
    /\ result.outcome = "wait_failed" =>
          /\ result.op \in {"create", "update"}
          /\ polls[Len(polls)] \notin PendingStates \cup TargetStates
          /\ result.error.msg # ""
          /\ result.error.cause.kind = "OperationFailed"
          /\ result.error.cause.status = polls[Len(polls)]

\* An Update whose wait found the service powered off.
C15_Witness ==
    /\ result.op = "update" /\ result.outcome = "wait_failed"
    /\ result.error.cause = OperationFailed("POWEROFF")
    /\ remote.State = "POWEROFF"

\* C16: every poll of a wait but its last observed a pending state; a wait that
\* goes on has observed pending states only; a wait that returned a service
\* returned the one its last poll observed, in the target state, after one get
\* request per poll; and no poll is made once the wait has ended.
C16_WaiterStopsAtFirstTerminal ==
    /\ [](/\ \A i \in 1..(Len(polls) - 1) : polls[i] \in PendingStates
          /\ pc \in {"create", "update"} =>
                /\ \A i \in 1..Len(polls) : polls[i] \in PendingStates
                /\ Len(calls) = Len(polls) + 1
          /\ (pc = "idle" /\ result.op \in {"create", "update"} /\ waited.exists) =>
                /\ polls # <<>>
                /\ polls[Len(polls)] \in TargetStates
                /\ waited.State = polls[Len(polls)]
                /\ Len(calls) = Len(polls) + 1)
    /\ [][ pc = "idle" => polls' \in {polls, <<>>} ]_vars

\* The scripted wait: pending, pending, running; three polls, the third returned.
C16_Witness ==
    /\ pc = "idle" /\ result.op = "create"
    /\ polls = <<"REBUILDING", "REBUILDING", "RUNNING">>
    /\ calls = <<"create", "get", "get", "get">>
    /\ waited.State = "RUNNING"

\* C17: the maintenance window of every create and update request sent is
\* either absent, or present with both a day of week and a time of day.
C17_WindowBothOrNone ==
    (calls # <<>> /\ calls[1] \in {"create", "update"}) =>
        \/ result.window = NoWindow
        \/ /\ result.window.present
           /\ result.window.DayOfWeek # ""
           /\ result.window.TimeOfDay # ""

\* A create request for a declaration with a day of week and no time of day:
\* sent without a window.
C17_Witness ==
    /\ calls # <<>> /\ calls[1] = "create"
    /\ cfg.maintenance_window_dow = "monday" /\ cfg.maintenance_window_time = ""
    /\ result.window = NoWindow /\ remote.exists /\ remote.DayOfWeek = "sunday"

\* C19: whenever Create has returned an error, the record has no identity.
C19_IdentityOnlyOnSuccess ==
    (result.op = "create" /\ result.outcome # "ok") => d.id = <<>>

\* C20: for every service type the generic resource's validation accepts, a
\* Create whose wait returned the running service, and a Read that was given
\* the service, end without error: the copy finds the type's user-config key
\* and its computed block in the schema.
C20_AcceptedTypesComplete ==
    (kind = "service" /\ cfg.service_type \in availableServiceTypes
       /\ result.op \in {"create", "read"} /\ result.resp = "none"
       /\ result.outcome \notin {"wait_timeout", "wait_failed"}) =>
        /\ result.outcome = "ok"
        /\ d.service_type \in DOMAIN d.user_config
        /\ d.service_type \in DOMAIN d.blocks

\* C18: with two invocations interleaved step by step, a step of either leaves
\* the other's record, requests, results and remote service as they were; the
\* second invocation addresses every request to its own project and service
\* name; and a Create of either that succeeded left the record that the copy
\* of its own service, as its own waiter returned it, yields.
C18_NoSharedState ==
    /\ [][ other' # other => Vars1' = Vars1 ]_vars
    /\ [][ Vars1' # Vars1 => other' = other ]_vars
    /\ [](/\ \A i \in 1..Len(other.calls) :
                <<other.calls[i].project, other.calls[i].name>>
                    = <<OtherConfig.project, OtherConfig.service_name>>
          /\ (other.result.op = "create" /\ other.result.outcome = "ok") =>
                /\ other.waited.Project = OtherConfig.project
                /\ other.waited.Name = OtherConfig.service_name
                /\ other.d = CreateFinishOutcome(
                                 OtherKind,
                                 resourceServiceCreateWrapper(
                                     OtherKind, PlannedRecord(OtherKind, OtherConfig)),
                                 other.waited).d
          /\ (result.op = "create" /\ result.outcome = "ok") =>
                /\ waited.Project = cfg.project
                /\ waited.Name = cfg.service_name
                /\ d = CreateFinishOutcome(
                           kind,
                           resourceServiceCreateWrapper(kind, PlannedRecord(kind, cfg)),
                           waited).d)

\* Both invocations in their waits at once, each having polled, each with its
\* own service on the remote.
C18_Witness ==
    /\ pc = "create" /\ other.pc = "update"
    /\ polls # <<>> /\ other.npolls > 0
    /\ remote.exists /\ other.remote.exists
    /\ remote.Name # other.remote.Name

\* C21: every update request that Update submits asks for the service to be
\* powered on, whatever answer the remote gives, whatever state the service is
\* in and whatever the new declaration changes; and an update request that the
\* remote accepts leaves the service requested as powered on, a service that
\* was powered off included.
C21_UpdateAlwaysPowered ==
    /\ []((calls # <<>> /\ calls[1] = "update") => result.powered)
    /\ [][ (pc = "idle" /\ pc' = "update") =>
              /\ remote'.exists /\ remote'.Powered
              /\ remote'.State # "POWEROFF" ]_vars

\* An Update of a service that the record had read as powered off, accepted by
\* the remote and now in its wait: the service is requested as powered on
\* again and is rebuilding.
C21_Witness ==
    /\ pc = "update" /\ calls = <<"update">>
    /\ d.state = "POWEROFF"
    /\ result.powered
    /\ remote.exists /\ remote.Powered /\ remote.State = "REBUILDING"

====
